---- MODULE Spec2Model ----
(***************************************************************************)
(* Model of the OSC -> audio/MIDI bridge of src/main.rs.                   *)
(*                                                                         *)
(* Two execution contexts share the vector latest_values behind a mutex:   *)
(*   - the ingest loop of main (recv_from, decode, map lookup, store       *)
(*     write, MIDI send, optional debug print);                            *)
(*   - the audio data callback handed to build_output_stream, which locks  *)
(*     the vector and copies it into every frame of the output buffer.     *)
(*                                                                         *)
(* Floats are modelled on the grid n / Scale: the integer n stands for the *)
(* f32 value n/Scale.  value * 2.0 - 1.0 is then 2n - Scale on the same    *)
(* grid and value * 127.0 is the rational 127n / Scale.                    *)
(***************************************************************************)
EXTENDS Integers, Sequences, FiniteSets, TLC

\* ---- bounds of the model ------------------------------------------------
Scale == 4          \* grid resolution of the modelled floats (n / Scale)
MaxDatagrams == 2   \* number of returns of recv_from that are explored
MaxPasses == 1      \* number of invocations of the audio data callback
BufFrames == 2      \* size of the output buffer, in frames of `channels` samples

\* ---- program constants --------------------------------------------------
channels == 8
StatusByte == 176   \* 0xB0

\* variant of the table with 1-based indices shifted past the last channel
osc_address_map_OutOfRange ==
    ("/lfo1" :> 0) @@ ("/lfo2" :> 1) @@ ("/lfo3" :> 2) @@ ("/lfo4" :> 3)
    @@ ("/stepped32" :> 4) @@ ("/stepped8" :> 8)

\* variant of the table in which the stepped inputs sit on the last channels
osc_address_map_Offset ==
    ("/lfo1" :> 0) @@ ("/lfo2" :> 1) @@ ("/lfo3" :> 2) @@ ("/lfo4" :> 3)
    @@ ("/stepped32" :> 6) @@ ("/stepped8" :> 7)

\* let osc_address_map: HashMap<&str, usize> = [...]
osc_address_map ==
    ("/lfo1" :> 0) @@ ("/lfo2" :> 1) @@ ("/lfo3" :> 2) @@ ("/lfo4" :> 3)
    @@ ("/stepped32" :> 4) @@ ("/stepped8" :> 5)

\* ---- inputs -------------------------------------------------------------
\* float arguments: -1/Scale, 0, 1/2, 1, 1 + 1/Scale
FloatArgs == {0 - 1, 0, Scale \div 2, Scale, Scale + 1}

OscFloat(n) == [type |-> "Float", val |-> n]
OscInt(n)   == [type |-> "Int", val |-> n]

OscMessage(addr, args) == [kind |-> "message", addr |-> addr, args |-> args]
OscBundle == [kind |-> "bundle", addr |-> "", args |-> <<>>]
Garbage   == [kind |-> "garbage", addr |-> "", args |-> <<>>]
NoPacket  == [kind |-> "none", addr |-> "", args |-> <<>>]

\* the datagrams a peer may send: every float on /lfo1, 1/2 and 1 on /lfo2,
\* 1 on the other known addresses, an unknown address, messages without a
\* float as first argument, a bundle and bytes that do not decode
Datagrams ==
    {OscMessage("/lfo1", <<OscFloat(n)>>) : n \in FloatArgs}
    \cup {OscMessage("/lfo2", <<OscFloat(n)>>) : n \in {Scale \div 2, Scale}}
    \cup {OscMessage(a, <<OscFloat(Scale)>>) :
             a \in {"/lfo3", "/lfo4", "/stepped32", "/stepped8"}}
    \cup {OscMessage("/unknown", <<OscFloat(Scale \div 2)>>),
          OscMessage("/unknown", <<>>),
          OscMessage("/lfo1", <<>>),
          OscMessage("/lfo2", <<OscInt(1), OscFloat(Scale)>>),
          OscMessage("/stepped8", <<OscFloat(Scale), OscInt(1)>>)}
    \cup {OscBundle, Garbage}

VARIABLES
    latest_values,  \* Arc<Mutex<Vec<f32>>>: the vector, indexed 0..channels-1
    values_lock,    \* owner of the mutex of latest_values
    pc,             \* position of the ingest loop
    buf,            \* the datagram recv_from put into buf[..size]
    channel,        \* local of the ingest loop (resolved index)
    audio_val,      \* local of the ingest loop
    midi_val,       \* local of the ingest loop
    midi_out,       \* frames transmitted over midi_conn, in order
    debug,          \* cmdline_args.debug
    printed,        \* lines printed by the debug println!
    received,       \* history: result of every recv_from call, in order
    rpc,            \* position of the audio data callback
    data,           \* samples of the output buffer written in this pass
    data_len,       \* length of the output buffer lent to this pass
    passes          \* number of callback invocations so far

vars == <<latest_values, values_lock, pc, buf, channel, audio_val, midi_val,
          midi_out, debug, printed, received, rpc, data, data_len, passes>>

ingest_vars == <<pc, buf, channel, audio_val, midi_val, midi_out, printed,
                 received>>
render_vars == <<rpc, data, data_len, passes>>

\* ---- pure helpers -------------------------------------------------------
\* a lookup that falls back to channel 0 (unwrap_or(&0)) for unknown addresses
MapGet_Default(addr) ==
    IF addr \in DOMAIN osc_address_map THEN {osc_address_map[addr]} ELSE {0}

\* osc_address_map.get(addr.as_str()): Some(index) as {index}, None as {}
MapGet(addr) ==
    IF addr \in DOMAIN osc_address_map THEN {osc_address_map[addr]} ELSE {}

\* a match that takes the first float found anywhere in args
ArgsFirstFloat_AnyFloat(args) ==
    LET fl == {i \in 1..Len(args) : args[i].type = "Float"}
    IN  IF fl = {} THEN {}
        ELSE {args[CHOOSE i \in fl : \A j \in fl : i <= j].val}

\* if let Some(rosc::OscType::Float(value)) = args.first()
ArgsFirstFloat(args) ==
    IF Len(args) > 0 /\ args[1].type = "Float" THEN {args[1].val} ELSE {}

\* the input value stored as it is, without the bipolar transform
AudioVal_Unipolar(value) == value

\* let audio_val = value * 2.0 - 1.0;
AudioVal(value) == 2 * value - Scale

\* (value * 127.0) as u8 without the clamp: the cast saturates at 0 and 255
MidiVal_NoClamp(value) ==
    IF value * 127 < 0 THEN 0
    ELSE IF value * 127 > 255 * Scale THEN 255
    ELSE (value * 127) \div Scale

\* let midi_val = (value * 127.0).clamp(0.0, 127.0) as u8;
\* the cast of a float to u8 truncates toward zero
MidiVal(value) ==
    IF value * 127 < 0 THEN 0
    ELSE IF value * 127 > 127 * Scale THEN 127
    ELSE (value * 127) \div Scale

\* let midi_message = [0xB0, channel as u8, midi_val];
MidiMessage(ch, mv) == <<StatusByte, ch % 256, mv>>

\* data.chunks_mut(channels): number of chunks of a buffer of len samples
NumChunks(len) == (len + channels - 1) \div channels

\* a fill that starts one channel late (values.iter().skip(1).cycle())
FilledChunk_Shifted(values, len, k) ==
    LET flen == IF (k + 1) * channels <= len THEN channels
                ELSE len - k * channels
        n    == IF flen < channels THEN flen ELSE channels
    IN  [i \in 1..n |-> values[i % channels]]

\* a fill that writes the values into the first frame only and silence
\* into the frames after it
FilledChunk_FirstFrameOnly(values, len, k) ==
    LET flen == IF (k + 1) * channels <= len THEN channels
                ELSE len - k * channels
        n    == IF flen < channels THEN flen ELSE channels
    IN  [i \in 1..n |-> IF k = 0 THEN values[i - 1] ELSE 0]

\* one iteration of `for frame in data.chunks_mut(channels)`: the samples
\* frame.iter_mut().zip(values.iter()) assigns in chunk number k (from 0)
FilledChunk(values, len, k) ==
    LET flen == IF (k + 1) * channels <= len THEN channels
                ELSE len - k * channels
        n    == IF flen < channels THEN flen ELSE channels
    IN  [i \in 1..n |-> values[i - 1]]

\* ---- initial state ------------------------------------------------------
Init ==
    /\ latest_values = [c \in 0..(channels - 1) |-> 0]
    /\ values_lock = "free"
    /\ pc = "recv"
    /\ buf = NoPacket
    /\ channel = 0
    /\ audio_val = 0
    /\ midi_val = 0
    /\ midi_out = <<>>
    /\ debug \in BOOLEAN
    /\ printed = <<>>
    /\ received = <<>>
    /\ rpc = "idle"
    /\ data = <<>>
    /\ data_len = 0
    /\ passes = 0

\* ---- ingest loop --------------------------------------------------------
\* if let Ok((size, _)) = osc_socket.recv_from(&mut buf)
RecvOk ==
    /\ pc = "recv"
    /\ Len(received) < MaxDatagrams
    /\ \E d \in Datagrams :
        /\ buf' = d
        /\ received' = Append(received, d)
    /\ pc' = "decode"
    /\ UNCHANGED <<latest_values, values_lock, channel, audio_val, midi_val,
                   midi_out, debug, printed, render_vars>>

\* recv_from returned Err: the loop body is skipped
RecvErr ==
    /\ pc = "recv"
    /\ Len(received) < MaxDatagrams
    /\ received' = Append(received, [kind |-> "recv_err", addr |-> "", args |-> <<>>])
    /\ UNCHANGED <<latest_values, values_lock, pc, buf, channel, audio_val,
                   midi_val, midi_out, debug, printed, render_vars>>

\* decode_udp(...).unwrap(): a datagram that fails to decode panics
DecodeFail_Unwrap ==
    /\ pc = "decode"
    /\ buf.kind = "garbage"
    /\ pc' = "panicked"
    /\ UNCHANGED <<latest_values, values_lock, buf, channel, audio_val,
                   midi_val, midi_out, debug, printed, received, render_vars>>

\* decoder::decode_udp(&buf[..size]) returned Err
DecodeFail ==
    /\ pc = "decode"
    /\ buf.kind = "garbage"
    /\ pc' = "recv"
    /\ buf' = NoPacket
    /\ UNCHANGED <<latest_values, values_lock, channel, audio_val, midi_val,
                   midi_out, debug, printed, received, render_vars>>

\* the packet is an OscPacket::Bundle, not an OscPacket::Message
DecodeBundle ==
    /\ pc = "decode"
    /\ buf.kind = "bundle"
    /\ pc' = "recv"
    /\ buf' = NoPacket
    /\ UNCHANGED <<latest_values, values_lock, channel, audio_val, midi_val,
                   midi_out, debug, printed, received, render_vars>>

\* osc_address_map[addr]: indexing the table panics on an unknown address
LookupMiss_Index ==
    /\ pc = "decode"
    /\ buf.kind = "message"
    /\ MapGet(buf.addr) = {}
    /\ pc' = "panicked"
    /\ UNCHANGED <<latest_values, values_lock, buf, channel, audio_val,
                   midi_val, midi_out, debug, printed, received, render_vars>>

\* osc_address_map.get(addr.as_str()) is None
LookupMiss ==
    /\ pc = "decode"
    /\ buf.kind = "message"
    /\ MapGet(buf.addr) = {}
    /\ pc' = "recv"
    /\ buf' = NoPacket
    /\ UNCHANGED <<latest_values, values_lock, channel, audio_val, midi_val,
                   midi_out, debug, printed, received, render_vars>>

\* args.first() is not Some(OscType::Float(_))
ArgNotFloat ==
    /\ pc = "decode"
    /\ buf.kind = "message"
    /\ MapGet(buf.addr) # {}
    /\ ArgsFirstFloat(buf.args) = {}
    /\ pc' = "recv"
    /\ buf' = NoPacket
    /\ UNCHANGED <<latest_values, values_lock, channel, audio_val, midi_val,
                   midi_out, debug, printed, received, render_vars>>

\* the frame is transmitted first: the loop goes to the send before the
\* block that writes the store
Dispatch_SendFirst ==
    /\ pc = "decode"
    /\ buf.kind = "message"
    /\ \E ch \in MapGet(buf.addr) : \E value \in ArgsFirstFloat(buf.args) :
        /\ channel' = ch
        /\ audio_val' = AudioVal(value)
        /\ midi_val' = MidiVal(value)
    /\ pc' = "send"
    /\ UNCHANGED <<latest_values, values_lock, buf, midi_out, debug, printed,
                   received, render_vars>>

\* the message is applicable: compute audio_val and midi_val
Dispatch ==
    /\ pc = "decode"
    /\ buf.kind = "message"
    /\ \E ch \in MapGet(buf.addr) : \E value \in ArgsFirstFloat(buf.args) :
        /\ channel' = ch
        /\ audio_val' = AudioVal(value)
        /\ midi_val' = MidiVal(value)
    /\ pc' = "lock"
    /\ UNCHANGED <<latest_values, values_lock, buf, midi_out, debug, printed,
                   received, render_vars>>

\* let mut vals = latest_values.lock().unwrap();
IngestLock ==
    /\ pc = "lock"
    /\ values_lock = "free"
    /\ values_lock' = "ingest"
    /\ pc' = "write"
    /\ UNCHANGED <<latest_values, buf, channel, audio_val, midi_val, midi_out,
                   debug, printed, received, render_vars>>

\* vals[channel] += audio_val: an aggregated update instead of an overwrite
IngestWrite_Accumulate ==
    /\ pc = "write"
    /\ channel \in DOMAIN latest_values
    /\ latest_values' =
           [latest_values EXCEPT ![channel] = latest_values[channel] + audio_val]
    /\ pc' = "unlock"
    /\ UNCHANGED <<values_lock, buf, channel, audio_val, midi_val, midi_out,
                   debug, printed, received, render_vars>>

\* vals[channel] = audio_val;
IngestWrite ==
    /\ pc = "write"
    /\ channel \in DOMAIN latest_values
    /\ latest_values' = [latest_values EXCEPT ![channel] = audio_val]
    /\ pc' = "unlock"
    /\ UNCHANGED <<values_lock, buf, channel, audio_val, midi_val, midi_out,
                   debug, printed, received, render_vars>>

\* the guard vals lives until the end of the loop body: the lock is still
\* held during the send
IngestUnlock_Hold ==
    /\ pc = "unlock"
    /\ pc' = "send"
    /\ UNCHANGED <<latest_values, values_lock, buf, channel, audio_val,
                   midi_val, midi_out, debug, printed, received, render_vars>>

\* end of the block: the guard vals is dropped
IngestUnlock ==
    /\ pc = "unlock"
    /\ values_lock' = "free"
    /\ pc' = "send"
    /\ UNCHANGED <<latest_values, buf, channel, audio_val, midi_val, midi_out,
                   debug, printed, received, render_vars>>

\* a send that transmits the frame a second time (a retry after success)
SendOk_Retry ==
    /\ pc = "send"
    /\ midi_out' = Append(Append(midi_out, MidiMessage(channel, midi_val)),
                          MidiMessage(channel, midi_val))
    /\ pc' = "debug"
    /\ UNCHANGED <<latest_values, values_lock, buf, channel, audio_val,
                   midi_val, debug, printed, received, render_vars>>

\* midi_conn.lock().unwrap().send(&midi_message) returned Ok
SendOk ==
    /\ pc = "send"
    /\ midi_out' = Append(midi_out, MidiMessage(channel, midi_val))
    /\ pc' = "debug"
    /\ UNCHANGED <<latest_values, values_lock, buf, channel, audio_val,
                   midi_val, debug, printed, received, render_vars>>

\* send returned Err, the error is logged and the loop goes on
SendErr_Continue ==
    /\ pc = "send"
    /\ pc' = "recv"
    /\ buf' = NoPacket
    /\ channel' = 0
    /\ audio_val' = 0
    /\ midi_val' = 0
    /\ UNCHANGED <<latest_values, values_lock, midi_out, debug, printed,
                   received, render_vars>>

\* send returned Err: .unwrap() panics on the main thread
SendErr ==
    /\ pc = "send"
    /\ pc' = "panicked"
    /\ UNCHANGED <<latest_values, values_lock, buf, channel, audio_val,
                   midi_val, midi_out, debug, printed, received, render_vars>>

\* a debug block that also transmits the frame again
DebugPrint_Resend ==
    /\ pc = "debug"
    /\ printed' = IF debug
                  THEN Append(printed, <<buf.addr, channel + 1, audio_val, midi_val>>)
                  ELSE printed
    /\ midi_out' = IF debug
                   THEN Append(midi_out, MidiMessage(channel, midi_val))
                   ELSE midi_out
    /\ pc' = "recv"
    /\ buf' = NoPacket
    /\ channel' = 0
    /\ audio_val' = 0
    /\ midi_val' = 0
    /\ UNCHANGED <<latest_values, values_lock, debug, received, render_vars>>

\* if cmdline_args.debug { println!(...) }, then the next loop iteration
DebugPrint ==
    /\ pc = "debug"
    /\ printed' = IF debug
                  THEN Append(printed, <<buf.addr, channel + 1, audio_val, midi_val>>)
                  ELSE printed
    /\ pc' = "recv"
    /\ buf' = NoPacket
    /\ channel' = 0
    /\ audio_val' = 0
    /\ midi_val' = 0
    /\ UNCHANGED <<latest_values, values_lock, midi_out, debug, received,
                   render_vars>>

\* ---- audio data callback ------------------------------------------------
\* the backend invokes the callback with an output buffer of BufFrames
\* whole frames
RenderRequest ==
    /\ rpc = "idle"
    /\ pc # "panicked"
    /\ passes < MaxPasses
    /\ data_len' = BufFrames * channels
    /\ data' = <<>>
    /\ passes' = passes + 1
    /\ rpc' = "lock"
    /\ UNCHANGED <<latest_values, values_lock, debug, ingest_vars>>

\* the callback reads the vector without taking the mutex
RenderLock_NoWait ==
    /\ rpc = "lock"
    /\ rpc' = "fill"
    /\ UNCHANGED <<latest_values, values_lock, debug, ingest_vars, data,
                   data_len, passes>>

\* let values = values_clone.lock().unwrap();
RenderLock ==
    /\ rpc = "lock"
    /\ values_lock = "free"
    /\ values_lock' = "render"
    /\ rpc' = "fill"
    /\ UNCHANGED <<latest_values, debug, ingest_vars, data, data_len, passes>>

\* one iteration of for frame in data.chunks_mut(channels)
RenderFill ==
    /\ rpc = "fill"
    /\ Len(data) < data_len
    /\ data' = data \o FilledChunk(latest_values, data_len, Len(data) \div channels)
    /\ UNCHANGED <<latest_values, values_lock, debug, ingest_vars, rpc,
                   data_len, passes>>

\* end of the closure: the guard values is dropped and the borrow of the
\* output buffer ends (the filled buffer goes back to the backend)
RenderUnlock ==
    /\ rpc = "fill"
    /\ Len(data) >= data_len
    /\ values_lock' = "free"
    /\ rpc' = "idle"
    /\ data' = <<>>
    /\ data_len' = 0
    /\ UNCHANGED <<latest_values, debug, ingest_vars, passes>>

Next ==
    \/ RecvOk
    \/ RecvErr
    \/ DecodeFail
    \/ DecodeBundle
    \/ LookupMiss
    \/ ArgNotFloat
    \/ Dispatch
    \/ IngestLock
    \/ IngestWrite
    \/ IngestUnlock
    \/ SendOk
    \/ SendErr
    \/ DebugPrint
    \/ RenderRequest
    \/ RenderLock
    \/ RenderFill
    \/ RenderUnlock

Spec == Init /\ [][Next]_vars

\* The ingest loop runs on the main thread and the callback on the thread
\* of the audio backend: a thread that can take a step eventually takes it,
\* and a thread that waits for the mutex gets it once the mutex stays free.
\* The arrival of datagrams and the buffer requests of the backend are left
\* to the environment.
IngestStep ==
    \/ DecodeFail \/ DecodeBundle \/ LookupMiss \/ ArgNotFloat \/ Dispatch
    \/ IngestWrite \/ IngestUnlock \/ SendOk \/ SendErr \/ DebugPrint

RenderStep == RenderFill \/ RenderUnlock

FairSpec ==
    /\ Spec
    /\ WF_vars(IngestStep)
    /\ WF_vars(RenderStep)
    /\ WF_vars(IngestLock)
    /\ WF_vars(RenderLock)

\* ---- vocabulary of the properties --------------------------------------
Channels == 0..(channels - 1)

\* a datagram that carries one message with a known address and a float
\* as first argument
Applicable(d) ==
    /\ d.kind = "message"
    /\ d.addr \in DOMAIN osc_address_map
    /\ Len(d.args) >= 1
    /\ d.args[1].type = "Float"

\* the float lies in [0, 1]
InUnit(n) == 0 <= n /\ n <= Scale

\* round(v * 127) to the nearest integer, clamped to [0, 127]
RoundedMidi(n) ==
    LET r == (2 * 127 * n + Scale) \div (2 * Scale)
    IN  IF r < 0 THEN 0 ELSE IF r > 127 THEN 127 ELSE r

\* the ingest loop is done with every datagram of `received`
Processed(d) ==
    /\ pc = "recv"
    /\ received # <<>>
    /\ received[Len(received)] = d

\* C1: for a known address a with index i and v in [0,1], processing the
\* message (a, v) reaches the store write, the write sets store[i] = 2v-1,
\* leaves every other slot as it was, and no other step changes the store.
C1_StoreWrite ==
    [][ /\ (pc = "decode" /\ Applicable(buf) /\ pc' # pc) => pc' = "lock"
        /\ (pc = "lock" /\ pc' # pc) => pc' = "write"
        /\ (pc = "write" /\ pc' # pc /\ Applicable(buf)
              /\ InUnit(buf.args[1].val)) =>
             LET i == osc_address_map[buf.addr]
                 v == buf.args[1].val
             IN  /\ DOMAIN latest_values' = Channels
                 /\ latest_values'[i] = 2 * v - Scale
                 /\ \A k \in Channels \ {i} :
                        latest_values'[k] = latest_values[k]
        /\ (pc # "write" \/ pc' = pc) => latest_values' = latest_values
      ]_vars

C1_Witness ==
    /\ pc = "unlock"
    /\ Applicable(buf)
    /\ buf.addr = "/lfo3"
    /\ buf.args[1].val = Scale
    /\ latest_values[2] = Scale
    /\ \E k \in Channels \ {2} : latest_values[k] # 0

\* C2: for a known address a with index i and v in [0,1], the message
\* (a, v) emits exactly one frame [0xB0, i, m] with m = round(v * 127)
\* clamped to [0, 127]; ("/lfo1", 0.5) gives [0xB0, 0, 64].
C2_FrameRounded ==
    [][ (pc = "send" /\ pc' = "debug" /\ Applicable(buf)
           /\ InUnit(buf.args[1].val)) =>
          midi_out' = Append(midi_out,
                             <<176, osc_address_map[buf.addr],
                               RoundedMidi(buf.args[1].val)>>)
      ]_vars

\* C3 as stated: ("/stepped8", 1.0) resolves to channel 7, sets
\* store[7] = 1.0 and emits [0xB0, 7, 127].
C3_Stepped8Channel7 ==
    (pc = "debug" /\ buf.addr = "/stepped8" /\ Applicable(buf)
       /\ buf.args[1].val = Scale) =>
      /\ latest_values[7] = Scale
      /\ midi_out # <<>>
      /\ midi_out[Len(midi_out)] = <<176, 7, 127>>

\* C3 amended: ("/stepped8", 1.0) resolves to channel 5, sets
\* store[5] = 1.0, leaves store[7] alone and emits [0xB0, 5, 127].
C3_Stepped8Channel5 ==
    (pc = "debug" /\ buf.addr = "/stepped8" /\ Applicable(buf)
       /\ buf.args[1].val = Scale) =>
      /\ latest_values[5] = Scale
      /\ latest_values[7] = 0
      /\ midi_out # <<>>
      /\ midi_out[Len(midi_out)] = <<176, 5, 127>>

C3_Witness ==
    /\ pc = "debug"
    /\ buf.addr = "/stepped8"
    /\ Applicable(buf)
    /\ buf.args[1].val = Scale
    /\ Len(midi_out) = 1

\* C4: a message whose address is not a key of the address map, whatever
\* its arguments, leaves the store unchanged, emits no frame, and the loop
\* goes back to receiving.
C4_UnknownAddress ==
    [][ (pc = "decode" /\ buf.kind = "message"
           /\ buf.addr \notin DOMAIN osc_address_map) =>
          /\ latest_values' = latest_values
          /\ midi_out' = midi_out
          /\ pc' \in {pc, "recv"}
      ]_vars

C4_Witness ==
    /\ Processed(OscMessage("/unknown", <<OscFloat(Scale \div 2)>>))
    /\ Len(received) = 2
    /\ received[1].kind = "message"
    /\ received[1].addr = "/unknown"
    /\ received[1].args = <<>>

\* C5: a message whose first argument is not a float (or that has no
\* argument), even with a known address, leaves the store unchanged and
\* emits no frame.
C5_FirstArgNotFloat ==
    [][ (pc = "decode" /\ buf.kind = "message"
           /\ (Len(buf.args) = 0 \/ buf.args[1].type # "Float")) =>
          /\ latest_values' = latest_values
          /\ midi_out' = midi_out
          /\ pc' \in {pc, "recv"}
      ]_vars

C5_Witness ==
    /\ Processed(OscMessage("/lfo2", <<OscInt(1), OscFloat(Scale)>>))
    /\ Len(received) = 2
    /\ received[1] = OscMessage("/lfo1", <<>>)
    /\ midi_out = <<>>
    /\ \A k \in Channels : latest_values[k] = 0

\* C6: a datagram that fails to decode, a bundle, or a failed receive is
\* never fatal: the store is unchanged, no frame is emitted and the loop
\* goes on with the next receive.
C6_BadDatagramDiscarded ==
    [][ /\ (pc = "decode" /\ buf.kind \in {"garbage", "bundle"}) =>
             /\ latest_values' = latest_values
             /\ midi_out' = midi_out
             /\ pc' \in {pc, "recv"}
        /\ (pc = "recv" /\ Len(received') > Len(received)
              /\ received'[Len(received')].kind = "recv_err") =>
             /\ latest_values' = latest_values
             /\ midi_out' = midi_out
             /\ pc' = "recv"
      ]_vars

C6_Witness ==
    /\ pc = "recv"
    /\ Len(received) = 2
    /\ received[1].kind \in {"garbage", "bundle", "recv_err"}
    /\ received[2].kind \in {"garbage", "bundle", "recv_err"}
    /\ received[1].kind # received[2].kind
    /\ midi_out = <<>>

\* C7: a failed transmission is fatal: a send that emits no frame ends in
\* the panicked state, from which no datagram is received, no store slot
\* is written and no frame is emitted any more; the store write of the
\* message whose frame failed is in place when the loop stops.
C7_SendFailureFatal ==
    [][ /\ (pc = "send" /\ pc' # pc /\ midi_out' = midi_out) =>
             pc' = "panicked"
        /\ pc' = "panicked" =>
             /\ Applicable(buf')
             /\ latest_values'[osc_address_map[buf'.addr]]
                  = 2 * buf'.args[1].val - Scale
        /\ pc = "panicked" =>
             /\ pc' = "panicked"
             /\ received' = received
             /\ latest_values' = latest_values
             /\ midi_out' = midi_out
      ]_vars

C7_Witness ==
    /\ pc = "panicked"
    /\ Len(received) < MaxDatagrams
    /\ midi_out = <<>>
    /\ latest_values[osc_address_map[buf.addr]] # 0

\* C8: the store write of the ingest loop and a render pass exclude each
\* other: no write takes effect between the first and the last sample of
\* a pass, and all samples written in a pass come from one store state.
C8_RenderExclusive ==
    [][ /\ ~(pc' \in {"write", "unlock"} /\ rpc' = "fill")
        /\ rpc = "fill" => latest_values' = latest_values
        /\ rpc' = "fill" =>
             \A k \in 1..Len(data') :
                 data'[k] = latest_values'[(k - 1) % channels]
      ]_vars

C8_Witness ==
    /\ rpc = "fill"
    /\ data_len = 2 * channels
    /\ Len(data) = channels
    /\ pc = "lock"
    /\ audio_val # latest_values[channel]
    /\ \E k \in 1..Len(data) : data[k] # 0

\* the datagrams whose store write, if they have one, is completed
Written ==
    IF pc \in {"decode", "lock", "write"}
    THEN SubSeq(received, 1, Len(received) - 1)
    ELSE received

\* the value of the last completed write to channel c, 0.0 if there is none
LastWritten(c) ==
    LET idx == {i \in 1..Len(Written) :
                  Applicable(Written[i]) /\ osc_address_map[Written[i].addr] = c}
    IN  IF idx = {} THEN 0
        ELSE 2 * Written[CHOOSE i \in idx : \A j \in idx : j <= i].args[1].val
               - Scale

\* C9: a render pass that starts after N applicable messages were written
\* puts, for every channel, the value of the last write to that channel
\* into its samples, and 0.0 for a channel never written.
C9_RenderSeesLastWrites ==
    rpc = "fill" =>
      \A k \in 1..Len(data) : data[k] = LastWritten((k - 1) % channels)

C9_Witness ==
    /\ rpc = "fill"
    /\ Len(data) = data_len
    /\ Len(Written) = 2
    /\ Applicable(Written[1])
    /\ Applicable(Written[2])
    /\ Written[1].addr = Written[2].addr
    /\ Written[1].args[1].val # Written[2].args[1].val
    /\ data[osc_address_map[Written[2].addr] + 1]
         = 2 * Written[2].args[1].val - Scale

\* the messages of `received` addressed to channel c, in arrival order
MessagesTo(c) ==
    SelectSeq(received,
              LAMBDA d : Applicable(d) /\ osc_address_map[d.addr] = c)

\* C10: once every received message is applied, the store value of each
\* channel is the value of the last message addressed to that channel,
\* whatever the messages to other channels and their position in between.
C10_DistinctChannelsCommute ==
    pc \in {"recv", "debug", "panicked"} =>
      \A c \in Channels :
          latest_values[c] =
            IF MessagesTo(c) = <<>> THEN 0
            ELSE 2 * MessagesTo(c)[Len(MessagesTo(c))].args[1].val - Scale

C10_Witness ==
    /\ pc = "recv"
    /\ Len(received) = 2
    /\ Len(MessagesTo(1)) = 1
    /\ Len(MessagesTo(0)) = 1
    /\ received[1].addr = "/lfo2"
    /\ latest_values[0] # 0
    /\ latest_values[1] # 0
    /\ latest_values[0] # latest_values[1]

\* the sample of frame f (from 0), channel c of the output buffer
Sample(f, c) == data[f * channels + c + 1]

\* the number of complete frames written so far in this pass
FramesWritten == Len(data) \div channels

\* C11: in a render pass every complete frame gets the same values: sample
\* (f, c) is store[c] for every frame f and channel c < 8; the steps of the
\* pass leave the store unchanged and emit no frame.
C11_BroadcastToEveryFrame ==
    [][ /\ rpc' = "fill" =>
             /\ Len(data') % channels = 0
             /\ \A f \in 0..(Len(data') \div channels - 1) : \A c \in Channels :
                    /\ data'[f * channels + c + 1] = latest_values'[c]
                    /\ data'[f * channels + c + 1] = data'[c + 1]
        /\ (rpc' # rpc \/ data' # data \/ passes' # passes) =>
             /\ latest_values' = latest_values
             /\ midi_out' = midi_out
      ]_vars

C11_Witness ==
    /\ rpc = "fill"
    /\ data_len = 2 * channels
    /\ FramesWritten = 2
    /\ Sample(1, 0) # 0
    /\ Sample(1, 5) # 0
    /\ Sample(1, 0) # Sample(1, 5)
    /\ Sample(1, 7) = 0

\* the datagrams whose control frame, if they have one, is transmitted
Sent ==
    IF pc \in {"recv", "debug"} THEN received
    ELSE SubSeq(received, 1, Len(received) - 1)

\* the applicable datagrams among the first n received, in arrival order
ApplicableOf(s) == SelectSeq(s, Applicable)

\* floor(127 v) limited to [0, 127]
TruncatedMidi(n) ==
    LET t == (127 * n) \div Scale
    IN  IF t < 0 THEN 0 ELSE IF t > 127 THEN 127 ELSE t

\* C13: the emitted frames follow arrival order: the k-th frame belongs to
\* the k-th applicable datagram received, there is one frame per such
\* datagram (none twice, none for a datagram that is not applicable), and a
\* step emits at most one frame, at the end of the sequence.
C13_FramesInArrivalOrder ==
    [][ /\ Len(midi_out') = Len(ApplicableOf(Sent'))
        /\ \A k \in 1..Len(midi_out') :
              /\ midi_out'[k][2] = osc_address_map[ApplicableOf(Sent')[k].addr]
              /\ midi_out'[k][3] = TruncatedMidi(ApplicableOf(Sent')[k].args[1].val)
        /\ \/ midi_out' = midi_out
           \/ /\ Len(midi_out') = Len(midi_out) + 1
              /\ SubSeq(midi_out', 1, Len(midi_out)) = midi_out
      ]_vars

C13_Witness ==
    /\ pc = "recv"
    /\ Len(received) = 2
    /\ Len(midi_out) = 2
    /\ midi_out[1][2] = 5
    /\ midi_out[2][2] = 0
    /\ midi_out[1][3] # midi_out[2][3]

\* C15: the store always holds exactly channelCount (8) entries, and every
\* channel index used to write the store or placed in a frame is below 8.
C15_IndexBelowChannelCount ==
    /\ DOMAIN latest_values = 0..7
    /\ Cardinality(DOMAIN latest_values) = channels
    /\ pc \in {"lock", "write", "unlock", "send", "debug", "panicked"} =>
         (channel >= 0 /\ channel < channels)
    /\ \A k \in 1..Len(midi_out) :
         (midi_out[k][2] >= 0 /\ midi_out[k][2] < channels)

C15_Witness ==
    /\ pc = "write"
    /\ channel = 5
    /\ Len(midi_out) = 1
    /\ midi_out[1][2] = 4

\* C16: every value held in the store is in [-1.0, 1.0], for any sequence
\* of received messages, float arguments outside [0, 1] included.
C16_StoreBipolar ==
    \A c \in Channels :
        (0 - Scale) <= latest_values[c] /\ latest_values[c] <= Scale

\* C17: every emitted frame has exactly 3 bytes, status byte 0xB0, the
\* resolved channel index as controller byte and a value byte in [0, 127],
\* for every float argument, also below 0 or above 1.
C17_FrameWellFormed ==
    /\ \A k \in 1..Len(midi_out) :
         /\ Len(midi_out[k]) = 3
         /\ midi_out[k][1] = 176
         /\ midi_out[k][2] \in {osc_address_map[a] : a \in DOMAIN osc_address_map}
         /\ midi_out[k][3] \in 0..127
    /\ (pc = "debug" /\ Applicable(buf)) =>
         midi_out[Len(midi_out)][2] = osc_address_map[buf.addr]

C17_Witness ==
    /\ pc = "debug"
    /\ Len(midi_out) = 2
    /\ received[1].args[1].val = Scale + 1
    /\ received[2].args[1].val = 0 - 1
    /\ midi_out[1] = <<176, 0, 127>>
    /\ midi_out[2] = <<176, 0, 0>>

\* C18: a frame is transmitted only after the store write of its message
\* is done and the store lock released; so in a render pass that runs with
\* k frames emitted, the sample of the channel of each of them is the value
\* of its message or of a later message to the same channel.
C18_WriteBeforeFrame ==
    [][ /\ midi_out' # midi_out =>
             /\ values_lock # "ingest"
             /\ values_lock' # "ingest"
             /\ Applicable(buf)
             /\ latest_values[osc_address_map[buf.addr]]
                  = 2 * buf.args[1].val - Scale
             /\ latest_values' = latest_values
        /\ (rpc' = "fill" /\ Len(data') >= channels) =>
             \A k \in 1..Len(midi_out') :
                 \E j \in k..Len(ApplicableOf(received')) :
                     /\ osc_address_map[ApplicableOf(received')[j].addr]
                          = midi_out'[k][2]
                     /\ data'[midi_out'[k][2] + 1]
                          = 2 * ApplicableOf(received')[j].args[1].val - Scale
      ]_vars

C18_Witness ==
    /\ rpc = "fill"
    /\ Len(data) >= channels
    /\ Len(midi_out) = 2
    /\ midi_out[1][2] = midi_out[2][2]
    /\ data[midi_out[1][2] + 1] # 2 * received[1].args[1].val - Scale
    /\ data[midi_out[1][2] + 1] = 2 * received[2].args[1].val - Scale

\* the frames of the applicable datagrams of s, one per datagram, in order
FramesOf(s) ==
    [k \in 1..Len(ApplicableOf(s)) |->
        <<176, osc_address_map[ApplicableOf(s)[k].addr],
          TruncatedMidi(ApplicableOf(s)[k].args[1].val)>>]

C20_LastTwoChannelsUntouched ==
    /\ {osc_address_map[a] : a \in DOMAIN osc_address_map} = 0..5
    /\ latest_values[6] = 0
    /\ latest_values[7] = 0
    /\ \A k \in 1..Len(midi_out) : midi_out[k][2] \notin {6, 7}

C20_Witness ==
    /\ pc = "recv"
    /\ Len(midi_out) = 2
    /\ midi_out[1][2] = 4
    /\ midi_out[2][2] = 5
    /\ latest_values[4] # 0
    /\ latest_values[5] # 0
    /\ latest_values[6] = 0
    /\ latest_values[7] = 0

\* C12: the ingest loop holds the store lock only around the slot
\* assignment, never while it waits in receive or transmits a frame, and a
\* render pass that asks for the lock eventually gets it.
C12_RenderNotStarved ==
    /\ [](values_lock = "ingest" => pc \in {"write", "unlock"})
    /\ [](pc \in {"recv", "decode", "lock", "send", "debug", "panicked"} =>
            values_lock # "ingest")
    /\ (rpc = "lock") ~> (rpc = "fill")

C12_Witness ==
    /\ rpc = "lock"
    /\ values_lock = "ingest"
    /\ pc = "write"
    /\ Len(received) = 2

\* the state of the ingest loop in the terms of the state machine; the
\* panic of the main thread ends the process
Phase ==
    CASE pc = "recv" -> "Listening"
      [] pc = "decode" -> "Decoding"
      [] pc \in {"lock", "write", "unlock", "send", "debug"} -> "Dispatching"
      [] pc = "panicked" -> "ProcessTerminated"
      [] OTHER -> "Unknown"

\* C14: the loop starts in Listening and only moves Listening -> Decoding,
\* Decoding -> Dispatching (applicable message), Decoding -> Listening (the
\* datagram is discarded) and Dispatching -> Listening; the only other end
\* is the termination of the process, and short of it the loop is
\* Listening again after every received datagram.
C14_IngestStateMachine ==
    /\ Phase = "Listening"
    /\ [][ \/ Phase' = Phase
           \/ Phase = "Listening" /\ Phase' = "Decoding"
           \/ Phase = "Decoding" /\ Phase' = "Dispatching" /\ Applicable(buf)
           \/ Phase = "Decoding" /\ Phase' = "Listening" /\ ~Applicable(buf)
           \/ Phase = "Dispatching" /\ Phase' = "Listening"
           \/ Phase = "Dispatching" /\ Phase' = "ProcessTerminated"
               /\ pc = "send"
         ]_vars
    /\ (Phase = "Decoding") ~> (Phase \in {"Listening", "ProcessTerminated"})

C14_Witness ==
    /\ Phase = "Listening"
    /\ Len(received) = 2
    /\ Applicable(received[1])
    /\ ~Applicable(received[2])
    /\ received[2].kind = "message"
    /\ Len(midi_out) = 1

====
